---- MODULE Spec2Model ----
(***************************************************************************)
(* Model of binread_derive/src/meta_attrs/field_level_attrs.rs:            *)
(* FieldLevelAttrs::from_field resolves the #[br(...)] / #[binread(...)]   *)
(* attributes of one struct field into a FieldLevelAttrs descriptor, or    *)
(* into the first CompileError.                                            *)
(*                                                                         *)
(* A field is a sequence of attributes (blocks).  An attribute has a path  *)
(* and tokens; the tokens either parse into a list of FieldLevelAttr       *)
(* values or are rejected by the grammar.  Every FieldLevelAttr value has  *)
(* a variant, a payload and a span.  A span is an interval <<lo, hi>> of   *)
(* source offsets; Span::join is the covering interval.                    *)
(***************************************************************************)
EXTENDS Integers, Sequences, FiniteSets, TLC

\* ------------------------------------------------------------------ bounds
MaxAttributes == 2      \* attributes written on a field of several attributes
MaxSplitMetas == 3      \* FieldLevelAttr values on a field of several attributes
MaxMetas == 4           \* FieldLevelAttr values in a field of one #[br(...)]

\* ------------------------------------------------------------- vocabulary
\* Variant of SingleOrder: pad_after is checked ahead of pad_before.
SingleOrderSwapped ==
    << "pad_after", "pad_before", "align_before", "align_after", "seek_before",
       "pad_size_to", "calc", "count", "is_little", "is_big", "offset",
       "offset_after", "if_cond", "map", "magic", "parse_with", "args",
       "args_tuple" >>

\* Variants resolved with get_only_first, in the order of only_first!(...),
\* each with the name of the local / descriptor member it is bound to.
SingleOrder ==
    << "pad_before", "pad_after", "align_before", "align_after", "seek_before",
       "pad_size_to", "calc", "count", "is_little", "is_big", "offset",
       "offset_after", "if_cond", "map", "magic", "parse_with", "args",
       "args_tuple" >>

SingleNames == { SingleOrder[i] : i \in 1..Len(SingleOrder) }

\* The single-valued members that are Option<...> in the descriptor.
OptionNames == SingleNames \ {"args", "args_tuple"}

\* Members of type SpannedValue<bool>.
SpannedFlagNames == {"big", "little"}

\* Members of type bool.
PlainFlagNames ==
    {"default", "ignore", "deref_now", "restore_position", "postprocess_now",
     "do_try", "temp"}

FlagNames == SpannedFlagNames \cup PlainFlagNames

AllNames == SingleNames \cup FlagNames \cup {"assert"}

\* The FieldLevelAttr variant bound to each member.
VariantTable ==
  [ name \in AllNames |->
    CASE name = "pad_before" -> "PadBefore"
      [] name = "pad_after" -> "PadAfter"
      [] name = "align_before" -> "AlignBefore"
      [] name = "align_after" -> "AlignAfter"
      [] name = "seek_before" -> "SeekBefore"
      [] name = "pad_size_to" -> "PadSizeTo"
      [] name = "calc" -> "Calc"
      [] name = "count" -> "Count"
      [] name = "is_little" -> "IsLittle"
      [] name = "is_big" -> "IsBig"
      [] name = "offset" -> "Offset"
      [] name = "offset_after" -> "OffsetAfter"
      [] name = "if_cond" -> "If"
      [] name = "map" -> "Map"
      [] name = "magic" -> "Magic"
      [] name = "parse_with" -> "ParseWith"
      [] name = "args" -> "Args"
      [] name = "args_tuple" -> "ArgsTuple"
      [] name = "big" -> "Big"
      [] name = "little" -> "Little"
      [] name = "default" -> "Default"
      [] name = "ignore" -> "Ignore"
      [] name = "deref_now" -> "DerefNow"
      [] name = "restore_position" -> "RestorePosition"
      [] name = "postprocess_now" -> "PostProcessNow"
      [] name = "do_try" -> "Try"
      [] name = "temp" -> "Temp"
      [] name = "assert" -> "Assert" ]

VariantOf(name) == VariantTable[name]

Variants == { VariantOf(n) : n \in AllNames }

FlagVariants == { VariantOf(n) : n \in FlagNames }

\* Payloads an occurrence of a variant written at source offset pos can
\* carry: nothing for a flag; for Args a list of expressions, empty or not;
\* for the others the tokens written there, identified by their offset.
PayloadsOf(variant, pos) ==
    CASE variant \in FlagVariants -> {"unit"}
      [] variant = "Args" -> { <<>>, <<pos>> }
      [] OTHER -> {pos}

\* Variants used on the fields that have several attributes.
SplitVariants == {"Big", "Little", "Count"}

\* Attribute paths: the two recognized ones and one foreign one.
Paths == {"br", "binread", "doc"}

\* ------------------------------------------------------------------ spans
NoSpan == <<0, 0>>      \* the span of SpannedValue::default()

SpanAt(pos) == <<2 * pos - 1, 2 * pos>>

Min(a, b) == IF a <= b THEN a ELSE b
Max(a, b) == IF a >= b THEN a ELSE b

\* Span::join(x, y).unwrap(): the span covering both.
Join(x, y) == << Min(x[1], y[1]), Max(x[2], y[2]) >>

\* spans.fold(first, |x, y| x.join(y).unwrap()) over a non-empty list
RECURSIVE FoldJoin(_, _)
FoldJoin(acc, spans) ==
    IF spans = <<>> THEN acc
    ELSE FoldJoin(Join(acc, Head(spans)), Tail(spans))

SpansOf(list) == [ i \in 1..Len(list) |-> list[i].span ]


\* ------------------------------------------------------------------ state
VARIABLES field,    \* syn::Field.attrs: the attributes written so far
          result    \* <<>> before the call, <<r>> once from_field returned r

vars == <<field, result>>

\* Option<T>
None == <<>>
Some(x) == <<x>>

Ok(desc) == [ok |-> TRUE, desc |-> desc]
Err(e) == [ok |-> FALSE, err |-> e]

\* CompileError::SpanError(SpanError::new(span, msg))
SpanError(span, what) ==
    [type |-> "SpanError", span |-> span,
     msg |-> <<"Conflicting instances of", what>>]

\* CompileError from syn::Error (the `?` in flas_from_attribute)
ParseError(span) == [type |-> "ParseError", span |-> span]

\* ------------------------------------------------------------- from_field
\* flas_from_attribute: syn::parse2 of the attribute's tokens
flas_from_attribute(attr) ==
    IF attr.parses THEN Ok(attr.metas) ELSE Err(ParseError(attr.span))

\* Variant of Recognized: only the short path is kept.
RecognizedBrOnly(attrs) ==
    SelectSeq(attrs, LAMBDA x : x.path = "br")

\* .filter(|x| x.path.is_ident("br") || x.path.is_ident("binread"))
Recognized(attrs) ==
    SelectSeq(attrs, LAMBDA x : x.path = "br" \/ x.path = "binread")

RECURSIVE Flatten(_)
Flatten(lists) ==
    IF lists = <<>> THEN <<>> ELSE Head(lists) \o Flatten(Tail(lists))

\* Variant of CollectAttrs: an attribute that does not parse is skipped.
CollectAttrsLenient(attrs) ==
    LET rec == SelectSeq(Recognized(attrs), LAMBDA x : x.parses)
    IN  Ok(Flatten([ i \in 1..Len(rec) |-> rec[i].metas ]))

\* .map(flas_from_attribute).collect::<Result<Vec<FlaList>, _>>()? ... .flatten()
\* Ok(all values in order), or the error of the first attribute that fails.
CollectAttrs(attrs) ==
    LET rec == Recognized(attrs)
        parsed == [ i \in 1..Len(rec) |-> flas_from_attribute(rec[i]) ]
        bad == { i \in 1..Len(rec) : ~parsed[i].ok }
    IN  IF bad # {}
        THEN Err(parsed[CHOOSE i \in bad : \A j \in bad : i <= j].err)
        ELSE Ok(Flatten([ i \in 1..Len(rec) |-> parsed[i].desc ]))

\* get_fla_type!(attrs.Variant)
get_fla_type(attrs, variant) ==
    SelectSeq(attrs, LAMBDA x : x.variant = variant)

\* Variant of get_only_first: a single occurrence is already a conflict.
get_only_first_strict(list, what) ==
    IF Len(list) >= 1
    THEN Err(SpanError(FoldJoin(list[1].span, Tail(SpansOf(list))), what))
    ELSE Ok(None)

\* Variant of get_only_first: the span joins the first two occurrences only.
get_only_first_two(list, what) ==
    IF Len(list) > 1
    THEN Err(SpanError(Join(list[1].span, list[2].span), what))
    ELSE Ok(IF Len(list) >= 1 THEN Some(list[1]) ELSE None)

\* get_only_first(list, msg)
get_only_first(list, what) ==
    IF Len(list) > 1
    THEN Err(SpanError(FoldJoin(list[1].span, Tail(SpansOf(list))), what))
    ELSE Ok(IF Len(list) >= 1 THEN Some(list[1]) ELSE None)

\* Variant of first_span_true: the span of the last occurrence is kept.
first_span_last(vals) ==
    IF Len(vals) >= 1
    THEN [value |-> TRUE, span |-> vals[Len(vals)].span]
    ELSE [value |-> FALSE, span |-> NoSpan]

\* first_span_true(vals)
first_span_true(vals) ==
    IF Len(vals) >= 1
    THEN [value |-> TRUE, span |-> vals[1].span]
    ELSE [value |-> FALSE, span |-> NoSpan]

\* Variant of NotEmpty: true for exactly one occurrence.
NotEmptyOnce(vals) == Len(vals) = 1

\* !get_fla_type!(attrs.Variant).is_empty()
NotEmpty(vals) == Len(vals) > 0

\* the args / args_tuple check ahead of only_first!
ArgsConflict(args, args_tuple) ==
    Len(args) > 0 /\ Len(args_tuple) > 0

\* Variant of ArgsConflictError: the span joins the args occurrences only.
ArgsConflictErrorArgsOnly(args, args_tuple) ==
    LET spans == SpansOf(args)
    IN  SpanError(FoldJoin(Head(spans), Tail(spans)), "args and args_tuple")

ArgsConflictError(args, args_tuple) ==
    LET spans == SpansOf(args) \o SpansOf(args_tuple)
    IN  SpanError(FoldJoin(Head(spans), Tail(spans)), "args and args_tuple")

\* only_first!(...): the checks run in SingleOrder, `?` returns the first error
OnlyFirst(attrs, name) == get_only_first(get_fla_type(attrs, VariantOf(name)), name)

\* The positions in SingleOrder whose check fails.
Conflicts(attrs) ==
    { i \in 1..Len(SingleOrder) : ~OnlyFirst(attrs, SingleOrder[i]).ok }

\* .map(|x| x.get())
Payload(opt) == IF opt = None THEN None ELSE Some(opt[1].payload)

\* Variant of PassedArgs: args_tuple is not looked at.
PassedArgsListOnly(args, args_tuple) ==
    [form |-> "List", list |-> IF args # None THEN args[1] ELSE <<>>]

\* PassedArgs
PassedArgs(args, args_tuple) ==
    IF args_tuple # None
    THEN [form |-> "Tuple", tuple |-> args_tuple[1]]
    ELSE [form |-> "List", list |-> IF args # None THEN args[1] ELSE <<>>]

\* Ok(Self { ... })
Descriptor(attrs) ==
    [ n \in OptionNames \cup FlagNames \cup {"args", "assert"} |->
        CASE n \in OptionNames -> Payload(OnlyFirst(attrs, n).desc)
          [] n \in SpannedFlagNames ->
               first_span_true(get_fla_type(attrs, VariantOf(n)))
          [] n \in PlainFlagNames -> NotEmpty(get_fla_type(attrs, VariantOf(n)))
          [] n = "args" ->
               PassedArgs(Payload(OnlyFirst(attrs, "args").desc),
                          Payload(OnlyFirst(attrs, "args_tuple").desc))
          [] n = "assert" -> <<>> ]

\* Variant of Resolve: big together with little is rejected.
ResolveExclusive(attrs) ==
    LET args == get_fla_type(attrs, "Args")
        args_tuple == get_fla_type(attrs, "ArgsTuple")
        big == get_fla_type(attrs, "Big")
        little == get_fla_type(attrs, "Little")
        failing == Conflicts(attrs)
    IN  IF ArgsConflict(args, args_tuple)
        THEN Err(ArgsConflictError(args, args_tuple))
        ELSE IF Len(big) > 0 /\ Len(little) > 0
        THEN Err(SpanError(Join(big[1].span, little[1].span), "big and little"))
        ELSE IF failing # {}
        THEN Err(OnlyFirst(attrs, SingleOrder[
                    CHOOSE i \in failing : \A j \in failing : i <= j]).err)
        ELSE Ok(Descriptor(attrs))

\* The body of from_field after the attributes are collected.
Resolve(attrs) ==
    LET args == get_fla_type(attrs, "Args")
        args_tuple == get_fla_type(attrs, "ArgsTuple")
        failing == Conflicts(attrs)
    IN  IF ArgsConflict(args, args_tuple)
        THEN Err(ArgsConflictError(args, args_tuple))
        ELSE IF failing # {}
        THEN Err(OnlyFirst(attrs, SingleOrder[
                    CHOOSE i \in failing : \A j \in failing : i <= j]).err)
        ELSE Ok(Descriptor(attrs))

from_field(f) ==
    LET collected == CollectAttrs(f)
    IN  IF ~collected.ok THEN Err(collected.err) ELSE Resolve(collected.desc)

\* ---------------------------------------------------------------- inputs
Metas(f) == Flatten([ i \in 1..Len(f) |-> f[i].metas ])

VariantsIn(f) == { Metas(f)[i].variant : i \in 1..Len(Metas(f)) }

\* The next free source offset: every attribute and every value takes one.
NextPos(f) == Len(f) + Len(Metas(f)) + 1

\* The fields explored are of two shapes.  One #[br(...)] that parses, with
\* up to MaxMetas values of at most two variants (or of one variant besides
\* args and args_tuple); or up to MaxAttributes attributes of any path,
\* well-formed or not, with up to MaxSplitMetas values of SplitVariants.
OneAttribute(f) ==
    /\ Len(f) = 1
    /\ f[1].path = "br"
    /\ f[1].parses

FewVariants(used) ==
    \/ Cardinality(used) <= 2
    \/ Cardinality(used \ {"Args", "ArgsTuple"}) <= 1

\* The variants a further value of the last attribute may have.
Writable(f) ==
    LET used == VariantsIn(f)
        n == Len(Metas(f))
    IN  (IF OneAttribute(f) /\ n < MaxMetas
         THEN { v \in Variants : FewVariants(used \cup {v}) }
         ELSE {})
        \cup
        (IF n < MaxSplitMetas /\ used \subseteq SplitVariants
         THEN SplitVariants
         ELSE {})

\* --------------------------------------------------------------- actions
Init ==
    /\ field = <<>>
    /\ result = <<>>

\* The source gains one more attribute, #[path(...)], still empty; its
\* tokens either conform to the grammar or do not.
WriteAttribute(path, parses) ==
    /\ result = <<>>
    /\ Len(field) < MaxAttributes
    /\ Len(Metas(field)) <= MaxSplitMetas
    /\ VariantsIn(field) \subseteq SplitVariants
    /\ field' = Append(field, [path |-> path, parses |-> parses,
                               span |-> SpanAt(NextPos(field)), metas |-> <<>>])
    /\ UNCHANGED result

\* The last attribute gains one more value.
WriteMeta ==
    /\ result = <<>>
    /\ field # <<>>
    /\ field[Len(field)].parses
    /\ LET last == field[Len(field)]
           pos == NextPos(field)
           span == SpanAt(pos)
       IN  \E variant \in Writable(field) :
             \E payload \in PayloadsOf(variant, pos) :
               field' = [field EXCEPT ![Len(field)] =
                           [last EXCEPT !.metas =
                              Append(last.metas,
                                     [variant |-> variant, payload |-> payload,
                                      span |-> span])]]
    /\ UNCHANGED result

\* FieldLevelAttrs::from_field(&field)
FromField ==
    /\ result = <<>>
    /\ result' = <<from_field(field)>>
    /\ UNCHANGED field

Next ==
    \/ \E path \in Paths, parses \in BOOLEAN : WriteAttribute(path, parses)
    \/ WriteMeta
    \/ FromField

Spec == Init /\ [][Next]_vars

\* ============================================================ properties
\* What the field holds, read off the source text independently of from_field.
Returned == result # <<>>
Ret == result[1]

RecognizedAt ==
    { i \in 1..Len(field) : field[i].path \in {"br", "binread"} }

EveryBlockParses == \A i \in RecognizedAt : field[i].parses

Positions ==
    UNION { { <<i, j>> : j \in 1..Len(field[i].metas) } : i \in RecognizedAt }

At(p) == field[p[1]].metas[p[2]]

Occurrences(name) ==
    { p \in Positions : At(p).variant = VariantTable[name] }

Number(name) == Cardinality(Occurrences(name))

Before(p, q) == p[1] < q[1] \/ (p[1] = q[1] /\ p[2] < q[2])

FirstOf(S) == CHOOSE p \in S : \A q \in S : p = q \/ Before(p, q)

\* The span from the start of the earliest to the end of the latest of S.
Covering(S) ==
    LET los == { At(p).span[1] : p \in S }
        his == { At(p).span[2] : p \in S }
    IN  << CHOOSE a \in los : \A b \in los : a <= b,
           CHOOSE a \in his : \A b \in his : a >= b >>

BothArgs == Number("args") >= 1 /\ Number("args_tuple") >= 1

SingleValued ==
    {"pad_before", "pad_after", "align_before", "align_after", "seek_before",
     "pad_size_to", "calc", "count", "is_little", "is_big", "offset",
     "offset_after", "if_cond", "map", "magic", "parse_with"}

\* The member a variant is bound to.
NameTable == [ v \in Variants |-> CHOOSE n \in AllNames : VariantTable[n] = v ]

\* The single-valued kinds that occur twice or more.
Duplicated ==
    LET pos == Positions
        again == { p \in pos :
                     \E q \in pos : q # p /\ At(q).variant = At(p).variant }
    IN  { NameTable[At(p).variant] : p \in again }
            \cap (SingleValued \cup {"args", "args_tuple"})

ConflictFree == EveryBlockParses /\ ~BothArgs /\ Duplicated = {}

IsConflict(r, what, span) ==
    /\ ~r.ok
    /\ r.err.type = "SpanError"
    /\ r.err.msg = <<"Conflicting instances of", what>>
    /\ r.err.span = span

\* C1: on a field whose blocks parse and that has no conflict, from_field
\* returns a descriptor in which every single-valued kind with no occurrence
\* is None and every one with exactly one occurrence is Some(its payload).
C1_SinglePassThrough ==
    (Returned /\ ConflictFree) =>
        /\ Ret.ok
        /\ \A n \in SingleValued :
              LET occ == Occurrences(n)
              IN  Ret.desc[n] = IF occ = {} THEN <<>>
                                ELSE << At(FirstOf(occ)).payload >>

C1_Witness ==
    /\ Returned
    /\ ConflictFree
    /\ Number("calc") = 1 /\ Number("magic") = 0
    /\ Ret.ok
    /\ Ret.desc["calc"] = << At(FirstOf(Occurrences("calc"))).payload >>
    /\ Ret.desc["magic"] = <<>>

\* C2: two or more occurrences of a single-valued kind, with no parse error,
\* no args/args_tuple conflict and no duplicated kind of earlier rank, make
\* from_field return the conflict error that names the kind and whose span
\* covers every occurrence of the kind.
C2_DuplicateConflict ==
    (Returned /\ EveryBlockParses /\ ~BothArgs) =>
        LET twice == { i \in 1..Len(SingleOrder) : Number(SingleOrder[i]) >= 2 }
        IN  \A i \in twice :
              (\A j \in twice : i <= j) =>
                 IsConflict(Ret, SingleOrder[i],
                            Covering(Occurrences(SingleOrder[i])))

C2_Witness ==
    /\ Returned
    /\ EveryBlockParses
    /\ Number("offset") = 3
    /\ \E p \in Positions : At(p).variant = "Big" /\ Before(FirstOf(Occurrences("offset")), p)
    /\ IsConflict(Ret, "offset", Covering(Occurrences("offset")))

\* C3: at least one args and at least one args_tuple occurrence make
\* from_field return the "args and args_tuple" conflict over the spans of all
\* occurrences of both, also when args or args_tuple is itself duplicated.
C3_ArgsCrossConflict ==
    (Returned /\ EveryBlockParses /\ BothArgs) =>
        IsConflict(Ret, "args and args_tuple",
                   Covering(Occurrences("args") \cup Occurrences("args_tuple")))

C3_Witness ==
    /\ Returned
    /\ Number("args") = 2 /\ Number("args_tuple") = 1
    /\ IsConflict(Ret, "args and args_tuple",
                  Covering(Occurrences("args") \cup Occurrences("args_tuple")))

\* The order of precedence among the single-group conflicts.
PrecedenceOrder ==
    << "pad_before", "pad_after", "align_before", "align_after", "seek_before",
       "pad_size_to", "calc", "count", "is_little", "is_big", "offset",
       "offset_after", "if_cond", "map", "magic", "parse_with", "args",
       "args_tuple" >>

FirstDuplicated ==
    LET twice == { i \in 1..Len(PrecedenceOrder) :
                     Number(PrecedenceOrder[i]) >= 2 }
    IN  PrecedenceOrder[CHOOSE i \in twice : \A j \in twice : i <= j]

FirstBadBlock ==
    CHOOSE i \in RecognizedAt :
        /\ ~field[i].parses
        /\ \A j \in RecognizedAt : j < i => field[j].parses

Names(r, what) ==
    /\ ~r.ok
    /\ r.err.type = "SpanError"
    /\ r.err.msg = <<"Conflicting instances of", what>>

\* C4: from_field returns one error, chosen by a fixed precedence: the parse
\* error of the first recognized block that does not parse; otherwise the
\* args/args_tuple conflict; otherwise the conflict of the first duplicated
\* kind in the fixed order, wherever the occurrences stand in the source.
C4_ErrorPrecedence ==
    Returned =>
        /\ ~EveryBlockParses =>
              /\ ~Ret.ok
              /\ Ret.err = [type |-> "ParseError", span |-> field[FirstBadBlock].span]
        /\ (EveryBlockParses /\ BothArgs) => Names(Ret, "args and args_tuple")
        /\ (EveryBlockParses /\ ~BothArgs /\ Duplicated # {}) =>
              Names(Ret, FirstDuplicated)

C4_Witness ==
    /\ Returned
    /\ EveryBlockParses
    /\ Number("pad_before") = 2 /\ Number("parse_with") = 2
    /\ Before(FirstOf(Occurrences("parse_with")), FirstOf(Occurrences("pad_before")))
    /\ Names(Ret, "pad_before")

FlagOf(desc, n) == IF n \in {"big", "little"} THEN desc[n].value ELSE desc[n]

PresenceFlags ==
    {"big", "little", "default", "ignore", "deref_now", "restore_position",
     "postprocess_now", "do_try", "temp"}

\* C5: however many times a presence flag is repeated, the repetition raises
\* no error, and the descriptor's flag is true iff the flag occurs at least once.
C5_PresenceFlags ==
    (Returned /\ ConflictFree) =>
        /\ Ret.ok
        /\ \A n \in PresenceFlags : FlagOf(Ret.desc, n) = (Number(n) >= 1)

C5_Witness ==
    /\ Returned
    /\ Number("temp") = 3 /\ Number("big") = 0
    /\ Ret.ok
    /\ Ret.desc["temp"] = TRUE
    /\ Ret.desc["big"].value = FALSE

\* The span a descriptor's flag carries: a SpannedValue<bool> has one, a bool none.
SpanCarried(desc, n) == IF n \in SpannedFlagNames THEN desc[n].span ELSE NoSpan

FirstSpan(n) == At(FirstOf(Occurrences(n))).span

\* C6 as stated: every presence flag that resolves to true carries the span
\* of its first occurrence.
C6_EveryFlagCarriesFirstSpan ==
    (Returned /\ Ret.ok) =>
        \A n \in PresenceFlags :
            Number(n) >= 1 => SpanCarried(Ret.desc, n) = FirstSpan(n)

\* C6 amended: big and little, when true, carry the span of their first
\* occurrence and drop the spans of later duplicates; the other presence
\* flags are plain booleans.
C6_BigLittleCarryFirstSpan ==
    (Returned /\ Ret.ok) =>
        /\ \A n \in {"big", "little"} :
              Number(n) >= 1 => Ret.desc[n] = [value |-> TRUE, span |-> FirstSpan(n)]
        /\ \A n \in PresenceFlags \ {"big", "little"} : Ret.desc[n] \in BOOLEAN

C6_Witness ==
    /\ Returned
    /\ Ret.ok
    /\ Number("little") = 2 /\ Number("ignore") = 2
    /\ Before(FirstOf(Occurrences("ignore")), FirstOf(Occurrences("little")))
    /\ Ret.desc["little"].span = FirstSpan("little")
    /\ Ret.desc["ignore"] = TRUE

\* The recognized blocks of the field, and the same values written in one block.
RecognizedBlocks ==
    SelectSeq(field, LAMBDA b : b.path \in {"br", "binread"})

AsOneBlock ==
    << [path |-> "br", parses |-> TRUE, span |-> SpanAt(1),
        metas |-> Flatten([ i \in 1..Len(RecognizedBlocks) |->
                              RecognizedBlocks[i].metas ])] >>

\* C7: blocks of a foreign path contribute nothing, not even an error; the
\* values of the recognized blocks resolve as if written in one block in
\* block order: the span of big/little is that of the occurrence in the
\* earliest block and duplicates split over blocks are a conflict.
C7_BlocksAsOne ==
    Returned =>
        /\ Ret = from_field(RecognizedBlocks)
        /\ EveryBlockParses =>
              /\ Ret = from_field(AsOneBlock)
              /\ \A n \in {"big", "little"} :
                    (Ret.ok /\ Number(n) >= 1) => Ret.desc[n].span = FirstSpan(n)
              /\ (~BothArgs /\ Duplicated = {"count"}) =>
                    IsConflict(Ret, "count", Covering(Occurrences("count")))

C7_Witness ==
    /\ Returned
    /\ Len(field) = 2
    /\ field[1].path = "binread" /\ field[2].path = "br"
    /\ \E j \in 1..Len(field[1].metas) : field[1].metas[j].variant = "Big"
    /\ \E j \in 1..Len(field[2].metas) : field[2].metas[j].variant = "Big"
    /\ Ret.ok
    /\ Ret.desc["big"].span = field[1].metas[1].span

C7_WitnessForeign ==
    /\ Returned
    /\ Len(field) = 2
    /\ field[1].path = "doc" /\ ~field[1].parses
    /\ Len(field[2].metas) >= 1
    /\ Ret.ok

\* C8: from_field returns a descriptor iff every recognized block parses,
\* args and args_tuple are not both present and no single-valued kind
\* (args and args_tuple included) occurs twice; otherwise it returns an error.
C8_OkIffConflictFree ==
    Returned => (Ret.ok <=> ConflictFree)

C8_Witness ==
    /\ Returned
    /\ Len(field) = 2
    /\ field[1].path = "br" /\ field[1].parses /\ Len(field[1].metas) >= 1
    /\ field[2].path = "binread" /\ ~field[2].parses
    /\ ~Ret.ok

\* C9: big and little together, and is_big and is_little together, are
\* accepted: the descriptor has both.
C9_EndianNotExclusive ==
    (Returned /\ ConflictFree) =>
        /\ Ret.ok
        /\ (Number("big") >= 1 /\ Number("little") >= 1) =>
              (Ret.desc["big"].value /\ Ret.desc["little"].value)
        /\ (Number("is_big") = 1 /\ Number("is_little") = 1) =>
              (Ret.desc["is_big"] # <<>> /\ Ret.desc["is_little"] # <<>>)

C9_Witness ==
    /\ Returned
    /\ Len(field) = 2
    /\ Number("big") = 1 /\ Number("little") = 1
    /\ Before(FirstOf(Occurrences("little")), FirstOf(Occurrences("big")))
    /\ Ret.ok
    /\ Ret.desc["big"].value /\ Ret.desc["little"].value

C9_WitnessPredicates ==
    /\ Returned
    /\ Number("is_big") = 1 /\ Number("is_little") = 1
    /\ Ret.ok
    /\ Ret.desc["is_big"] # <<>> /\ Ret.desc["is_little"] # <<>>

\* C10: in a descriptor, args is the tuple form with the args_tuple payload
\* exactly when the field has one args_tuple (and then no args); otherwise
\* the list form with the list of the one args, or the empty list.
C10_PassedArgs ==
    (Returned /\ Ret.ok) =>
        LET a == Ret.desc["args"]
        IN  IF Number("args_tuple") = 1
            THEN /\ a.form = "Tuple"
                 /\ a.tuple = At(FirstOf(Occurrences("args_tuple"))).payload
                 /\ Number("args") = 0
            ELSE /\ a.form = "List"
                 /\ a.list = IF Number("args") = 1
                              THEN At(FirstOf(Occurrences("args"))).payload
                              ELSE <<>>

C10_Witness ==
    /\ Returned
    /\ Ret.ok
    /\ Number("args_tuple") = 1
    /\ Ret.desc["args"].form = "Tuple"
    /\ Ret.desc["args"].tuple = At(FirstOf(Occurrences("args_tuple"))).payload

C10_WitnessList ==
    /\ Returned
    /\ Ret.ok
    /\ Number("args") = 1
    /\ Ret.desc["args"].form = "List"
    /\ Ret.desc["args"].list # <<>>

====
